---- MODULE Spec2Model ----
(***************************************************************************)
(* Model of the in-memory address book of main.py: Field/Name/Phone value  *)
(* types, Record (one name, a list of phones) and AddressBook (an          *)
(* insertion-ordered mapping from name to Record).                         *)
(*                                                                         *)
(* A string is a sequence of one-character strings.  The character "SUP2"  *)
(* stands for U+00B2 (superscript two), "TAB" for the tabulator.           *)
(***************************************************************************)
EXTENDS Integers, Sequences, FiniteSets, TLC

VARIABLES records, book, call, result, pre

vars == <<records, book, call, result, pre>>

(* ------------------------------ bounds --------------------------------- *)

\* number of distinct decimal digit characters the phone inputs are built from
NumDigits == 2

\* number of Record objects a run may construct
MaxRecords == 3

\* add_phone is not called on a Record that already holds this many phones
MaxPhones == 3

(* --------------------------- characters -------------------------------- *)

\* Phone.__init__: len(raw) != 10
PhoneLen == 10

DecimalDigits == {"0", "1", "2", "3", "4", "5", "6", "7", "8", "9"}

\* characters of Unicode category No for which str.isdigit() is True
SuperscriptDigits == {"SUP2"}

Whitespace == {" ", "TAB"}

\* str.isdigit() on one character
isdigit(ch) == ch \in DecimalDigits \cup SuperscriptDigits

Rep(ch, n) == [i \in 1..n |-> ch]

RECURSIVE lstrip(_)
lstrip(s) ==
    IF s # <<>> /\ Head(s) \in Whitespace THEN lstrip(Tail(s)) ELSE s

RECURSIVE rstrip(_)
rstrip(s) ==
    IF s # <<>> /\ s[Len(s)] \in Whitespace
    THEN rstrip(SubSeq(s, 1, Len(s) - 1))
    ELSE s

\* str.strip()
strip(s) == rstrip(lstrip(s))

(* --------------------------- value types ------------------------------- *)

\* Field.__init__: the field keeps the value it is given
Field(value) == [ok |-> TRUE, value |-> value]

ValueError == [ok |-> FALSE, value |-> <<>>]

\* variant: validates the stripped text but keeps the text as given
Name_unstripped(value) ==
    IF strip(value) = <<>> THEN ValueError ELSE Field(value)

\* Name.__init__; the arguments are strings, for which (value or "") is value
Name(value) ==
    LET v == strip(value)
    IN  IF v = <<>> THEN ValueError ELSE Field(v)

\* "".join(ch for ch in str(value) if ch.isdigit()), str() of a string
\* being the string
digits_of(value) == SelectSeq(value, isdigit)

\* Phone.__init__
Phone(value) ==
    LET raw == digits_of(value)
    IN  IF Len(raw) # PhoneLen THEN ValueError ELSE Field(raw)

(* ----------------------------- Record ---------------------------------- *)

\* Record.find_phone on a list of phone values: the position of the first
\* phone whose value is the normalized argument, 0 for None
find_phone(phones, phone_value) ==
    LET normalized == digits_of(phone_value)
        hits == {i \in 1..Len(phones) : phones[i] = normalized}
    IN  IF hits = {} THEN 0
        ELSE CHOOSE i \in hits : \A j \in hits : i <= j

\* list.remove(target): the list without the element at position i
RemoveAt(phones, i) ==
    [j \in 1..(Len(phones) - 1) |-> IF j < i THEN phones[j] ELSE phones[j + 1]]

\* variant: compares the stored values with the argument as given
add_phone_raw_compare(phones, phone_value) ==
    LET phone == Phone(phone_value)
    IN  IF ~phone.ok THEN [status |-> "ValueError", phones |-> phones]
        ELSE IF ~(\E i \in 1..Len(phones) : phones[i] = phone_value)
        THEN [status |-> "ok", phones |-> Append(phones, phone.value)]
        ELSE [status |-> "ok", phones |-> phones]

\* Record.add_phone on a list of phone values
add_phone(phones, phone_value) ==
    LET phone == Phone(phone_value)
    IN  IF ~phone.ok THEN [status |-> "ValueError", phones |-> phones]
        ELSE IF ~(\E i \in 1..Len(phones) : phones[i] = phone.value)
        THEN [status |-> "ok", phones |-> Append(phones, phone.value)]
        ELSE [status |-> "ok", phones |-> phones]

\* variant: a missing phone is ignored
remove_phone_silent(phones, phone_value) ==
    LET target == find_phone(phones, phone_value)
    IN  IF target = 0 THEN [status |-> "ok", phones |-> phones]
        ELSE [status |-> "ok", phones |-> RemoveAt(phones, target)]

\* Record.remove_phone on a list of phone values
remove_phone(phones, phone_value) ==
    LET target == find_phone(phones, phone_value)
    IN  IF target = 0 THEN [status |-> "KeyError", phones |-> phones]
        ELSE [status |-> "ok", phones |-> RemoveAt(phones, target)]

\* variant: the target is overwritten before the new value is validated
edit_phone_write_first(phones, old_value, new_value) ==
    LET target == find_phone(phones, old_value)
        new_phone == Phone(new_value)
    IN  IF target = 0 THEN [status |-> "KeyError", phones |-> phones]
        ELSE IF ~new_phone.ok
        THEN [status |-> "ValueError",
              phones |-> [phones EXCEPT ![target] = digits_of(new_value)]]
        ELSE [status |-> "ok",
              phones |-> [phones EXCEPT ![target] = new_phone.value]]

\* variant: the old phone is removed and the new one appended
edit_phone_move_to_end(phones, old_value, new_value) ==
    LET target == find_phone(phones, old_value)
        new_phone == Phone(new_value)
    IN  IF target = 0 THEN [status |-> "KeyError", phones |-> phones]
        ELSE IF ~new_phone.ok THEN [status |-> "ValueError", phones |-> phones]
        ELSE [status |-> "ok",
              phones |-> Append(RemoveAt(phones, target), new_phone.value)]

\* Record.edit_phone on a list of phone values
edit_phone(phones, old_value, new_value) ==
    LET target == find_phone(phones, old_value)
        new_phone == Phone(new_value)
    IN  IF target = 0 THEN [status |-> "KeyError", phones |-> phones]
        ELSE IF ~new_phone.ok THEN [status |-> "ValueError", phones |-> phones]
        ELSE [status |-> "ok",
              phones |-> [phones EXCEPT ![target] = new_phone.value]]

(* --------------------------- AddressBook ------------------------------- *)

\* the mapping self.data is a dict: a sequence of entries in insertion order,
\* at most one entry per key
KeyIndex(data, key) ==
    IF \E i \in 1..Len(data) : data[i].key = key
    THEN CHOOSE i \in 1..Len(data) : data[i].key = key
    ELSE 0

\* variant: an existing key is dropped and inserted again at the end
add_record_reinsert(data, name_value, r) ==
    Append(SelectSeq(data, LAMBDA e : e.key # name_value),
           [key |-> name_value, rec |-> r])

\* AddressBook.add_record: self.data[record.name.value] = record
add_record(data, name_value, r) ==
    LET i == KeyIndex(data, name_value)
    IN  IF i = 0 THEN Append(data, [key |-> name_value, rec |-> r])
        ELSE [data EXCEPT ![i] = [key |-> name_value, rec |-> r]]

\* AddressBook.find: self.data.get(name), 0 for None
find(data, name) ==
    LET i == KeyIndex(data, name)
    IN  IF i = 0 THEN 0 ELSE data[i].rec

\* variant: the last entry is moved into the place of the deleted one
delete_swap_last(data, name) ==
    LET i == KeyIndex(data, name)
        n == Len(data)
    IN  IF i = 0 THEN [status |-> "KeyError", data |-> data]
        ELSE [status |-> "ok",
              data |-> [j \in 1..(n - 1) |-> IF j = i THEN data[n] ELSE data[j]]]

\* AddressBook.delete: del self.data[name]
delete(data, name) ==
    LET i == KeyIndex(data, name)
    IN  IF i = 0 THEN [status |-> "KeyError", data |-> data]
        ELSE [status |-> "ok",
              data |-> [j \in 1..(Len(data) - 1) |->
                            IF j < i THEN data[j] ELSE data[j + 1]]]

(* ------------------------------ inputs --------------------------------- *)

DigitName == <<"1", "2", "3", "4", "5", "6", "7", "8", "9">>

DigitChars == {DigitName[i] : i \in 1..NumDigits}

Plain(d)  == Rep(d, PhoneLen)
Dashed(d) == Rep(d, 3) \o <<"-">> \o Rep(d, 3) \o <<"-">> \o Rep(d, 4)
Parens(d) == <<"(">> \o Rep(d, 3) \o <<")", " ">> \o Rep(d, 3) \o <<"-">> \o Rep(d, 4)
Short(d)  == Rep(d, PhoneLen - 1)
Long(d)   == Rep(d, PhoneLen + 1)

\* phone arguments of the single-record specification
PhoneInputs ==
    {Plain(d) : d \in DigitChars}
        \cup {Dashed("1"), Parens("1"), Short("1"), Long("1"), <<>>,
              Rep("SUP2", PhoneLen)}

\* phone arguments of the address-book specification
BookPhoneInputs == {Parens("1"), Short("1")}

John == <<"J", "o", "h", "n">>
Jane == <<"J", "a", "n", "e">>
Ann  == <<"A", "n", "n">>

\* name arguments: plain, padded with whitespace, blank, empty
NameInputs ==
    {John, Jane, <<" ">> \o John \o <<"TAB">>, <<" ", "TAB">>, <<>>}

\* name arguments of the specification without phones
BookNameInputs == NameInputs \cup {Ann}

(* ------------------------------ state ---------------------------------- *)

NoCall == [op |-> "init", rec |-> 0, a |-> <<>>, b |-> <<>>]

Result(status, value) == [status |-> status, value |-> value]

Snapshot == [records |-> records, book |-> book]

\* every handler records its call, its outcome and the state it started from
Return(op, r, a, b, res) ==
    /\ call' = [op |-> op, rec |-> r, a |-> a, b |-> b]
    /\ result' = res
    /\ pre' = Snapshot

\* Record.__init__
Record(name) ==
    LET n == Name(name)
    IN  /\ Len(records) < MaxRecords
        /\ IF ~n.ok
           THEN /\ UNCHANGED <<records, book>>
                /\ Return("Record", 0, name, <<>>, Result("ValueError", 0))
           ELSE /\ records' = Append(records, [name |-> n.value, phones |-> <<>>])
                /\ UNCHANGED book
                /\ Return("Record", Len(records) + 1, name, <<>>, Result("ok", 0))

Init ==
    /\ records = <<>>
    /\ book = <<>>
    /\ call = NoCall
    /\ result = Result("ok", 0)
    /\ pre = [records |-> <<>>, book |-> <<>>]

SetPhones(r, phones) ==
    records' = [records EXCEPT ![r].phones = phones]

AddPhone(r, phone_value) ==
    LET out == add_phone(records[r].phones, phone_value)
    IN  /\ Len(records[r].phones) < MaxPhones
        /\ SetPhones(r, out.phones)
        /\ UNCHANGED book
        /\ Return("add_phone", r, phone_value, <<>>, Result(out.status, 0))

RemovePhone(r, phone_value) ==
    LET out == remove_phone(records[r].phones, phone_value)
    IN  /\ SetPhones(r, out.phones)
        /\ UNCHANGED book
        /\ Return("remove_phone", r, phone_value, <<>>, Result(out.status, 0))

EditPhone(r, old_value, new_value) ==
    LET out == edit_phone(records[r].phones, old_value, new_value)
    IN  /\ SetPhones(r, out.phones)
        /\ UNCHANGED book
        /\ Return("edit_phone", r, old_value, new_value, Result(out.status, 0))

FindPhone(r, phone_value) ==
    LET target == find_phone(records[r].phones, phone_value)
    IN  /\ UNCHANGED <<records, book>>
        /\ Return("find_phone", r, phone_value, <<>>,
                  IF target = 0 THEN Result("None", 0)
                  ELSE Result("Phone", target))

AddRecord(r) ==
    /\ book' = add_record(book, records[r].name, r)
    /\ UNCHANGED records
    /\ Return("add_record", r, <<>>, <<>>, Result("ok", 0))

Find(name) ==
    LET r == find(book, name)
    IN  /\ UNCHANGED <<records, book>>
        /\ Return("find", 0, name, <<>>,
                  IF r = 0 THEN Result("None", 0) ELSE Result("Record", r))

Delete(name) ==
    LET out == delete(book, name)
    IN  /\ book' = out.data
        /\ UNCHANGED records
        /\ Return("delete", 0, name, <<>>, Result(out.status, 0))

Objects == 1..Len(records)

Next ==
    \/ \E name \in NameInputs : Record(name)
    \/ \E r \in Objects, v \in BookPhoneInputs : AddPhone(r, v)
    \/ \E r \in Objects, v \in BookPhoneInputs : RemovePhone(r, v)
    \/ \E r \in Objects, v, w \in BookPhoneInputs : EditPhone(r, v, w)
    \/ \E r \in Objects, v \in BookPhoneInputs : FindPhone(r, v)
    \/ \E r \in Objects : AddRecord(r)
    \/ \E name \in NameInputs : Find(name)
    \/ \E name \in NameInputs : Delete(name)

Spec == Init /\ [][Next]_vars

\* one Record, as constructed by Record("John"), and its phone operations
InitRecord ==
    /\ records = <<[name |-> John, phones |-> <<>>]>>
    /\ book = <<>>
    /\ call = [op |-> "Record", rec |-> 1, a |-> John, b |-> <<>>]
    /\ result = Result("ok", 0)
    /\ pre = [records |-> <<>>, book |-> <<>>]

NextRecord ==
    \/ \E v \in PhoneInputs : AddPhone(1, v)
    \/ \E v \in PhoneInputs : RemovePhone(1, v)
    \/ \E v, w \in PhoneInputs : EditPhone(1, v, w)
    \/ \E v \in PhoneInputs : FindPhone(1, v)

SpecRecord == InitRecord /\ [][NextRecord]_vars

\* the address book alone, over Records without phones
NextBook ==
    \/ \E name \in BookNameInputs : Record(name)
    \/ \E r \in Objects : AddRecord(r)
    \/ \E name \in BookNameInputs : Find(name)
    \/ \E name \in BookNameInputs : Delete(name)

SpecBook == Init /\ [][NextBook]_vars

(* ------------------------- helpers of the claims ----------------------- *)

Phones(r)    == records[r].phones
PrePhones(r) == pre.records[r].phones

Raised == result.status \in {"ValueError", "KeyError"}

\* some phone of the list has the digits of raw as its value
Stored(phones, raw) ==
    \E i \in 1..Len(phones) : phones[i] = SelectSeq(raw, isdigit)

HasKey(data, name) == \E i \in 1..Len(data) : data[i].key = name

\* the first position of value v in the list, 0 when there is none
FirstAt(phones, v) ==
    IF \E i \in 1..Len(phones) : phones[i] = v
    THEN CHOOSE i \in 1..Len(phones) :
             phones[i] = v /\ \A j \in 1..(i - 1) : phones[j] # v
    ELSE 0

\* seq is old without its element at position i
Without(seq, old, i) ==
    /\ Len(seq) = Len(old) - 1
    /\ \A j \in 1..Len(seq) : seq[j] = IF j < i THEN old[j] ELSE old[j + 1]

ValidPhone(raw) == Len(SelectSeq(raw, isdigit)) = PhoneLen

(* ------------------------------- claims -------------------------------- *)

\* C1: no Record ever holds two phones with the same normalized value,
\* whatever sequence of add_phone, remove_phone and edit_phone produced it.
C1_NoDuplicatePhones ==
    \A r \in Objects :
        \A i, j \in 1..Len(Phones(r)) :
            i # j => Phones(r)[i] # Phones(r)[j]

\* C2: an operation that raises leaves the Records and the address book as
\* they were before the call; edit_phone with a stored old value and a new
\* value that does not normalize to 10 digits raises ValueError.
C2_AtomicOnError ==
    /\ Raised => records = pre.records /\ book = pre.book
    /\ ( /\ call.op = "edit_phone"
         /\ Stored(PrePhones(call.rec), call.a)
         /\ ~ValidPhone(call.b) )
       => result.status = "ValueError" /\ Phones(call.rec) = PrePhones(call.rec)

C2_Witness ==
    /\ call.op = "edit_phone"
    /\ result.status = "ValueError"
    /\ Stored(PrePhones(call.rec), call.a)
    /\ ~ValidPhone(call.b)
    /\ HasKey(book, records[call.rec].name)

\* C3: on an absent target find and find_phone return None without raising,
\* while delete, remove_phone and edit_phone raise KeyError; edit_phone does
\* so whether or not its new value is valid.
C3_AbsentTarget ==
    /\ (call.op = "find" /\ ~HasKey(pre.book, call.a))
       => result.status = "None"
    /\ (call.op = "find_phone" /\ ~Stored(PrePhones(call.rec), call.a))
       => result.status = "None"
    /\ (call.op = "delete" /\ ~HasKey(pre.book, call.a))
       => result.status = "KeyError"
    /\ (call.op = "remove_phone" /\ ~Stored(PrePhones(call.rec), call.a))
       => result.status = "KeyError"
    /\ (call.op = "edit_phone" /\ ~Stored(PrePhones(call.rec), call.a))
       => result.status = "KeyError"

C3_Witness ==
    /\ call.op = "edit_phone"
    /\ PrePhones(call.rec) # <<>>
    /\ ~Stored(PrePhones(call.rec), call.a)
    /\ ~ValidPhone(call.b)
    /\ result.status = "KeyError"

\* C4: every stored phone value is exactly 10 characters long and consists
\* of decimal digits only.
C4_TenDecimalDigits ==
    \A r \in Objects :
        \A i \in 1..Len(Phones(r)) :
            /\ Len(Phones(r)[i]) = PhoneLen
            /\ \A k \in 1..Len(Phones(r)[i]) : Phones(r)[i][k] \in DecimalDigits

\* C5: add_phone with a valid argument whose normalized value is already
\* stored changes nothing; otherwise it appends that value once, so two calls
\* with arguments that normalize identically store the value once.
C5_AddPhoneIdempotent ==
    (call.op = "add_phone" /\ ValidPhone(call.a)) =>
        /\ result.status = "ok"
        /\ IF Stored(PrePhones(call.rec), call.a)
           THEN Phones(call.rec) = PrePhones(call.rec)
           ELSE Phones(call.rec) =
                    Append(PrePhones(call.rec), SelectSeq(call.a, isdigit))

C5_Witness ==
    /\ call.op = "add_phone"
    /\ result.status = "ok"
    /\ Stored(PrePhones(call.rec), call.a)
    /\ \A i \in 1..Len(PrePhones(call.rec)) : PrePhones(call.rec)[i] # call.a
    /\ Len(Phones(call.rec)) >= 2

\* C6: a successful edit_phone keeps the length of the phone list, puts the
\* normalized new value at the position of the first phone that held the
\* normalized old value, and leaves every other position as it was.
C6_EditInPlace ==
    (call.op = "edit_phone" /\ result.status = "ok") =>
        LET old == PrePhones(call.rec)
            now == Phones(call.rec)
            at  == FirstAt(old, SelectSeq(call.a, isdigit))
        IN  /\ at # 0
            /\ Len(now) = Len(old)
            /\ now[at] = SelectSeq(call.b, isdigit)
            /\ \A j \in 1..Len(old) : j # at => now[j] = old[j]

C6_Witness ==
    /\ call.op = "edit_phone"
    /\ result.status = "ok"
    /\ Len(Phones(call.rec)) = 3
    /\ FirstAt(PrePhones(call.rec), SelectSeq(call.a, isdigit)) = 2
    /\ SelectSeq(call.a, isdigit) # SelectSeq(call.b, isdigit)
    /\ call.a # SelectSeq(call.a, isdigit)

\* C7: a successful remove_phone removes exactly the first phone holding the
\* normalized value, keeps the order of the others, and afterwards
\* find_phone on the same argument returns None.
C7_RemoveThenAbsent ==
    (call.op = "remove_phone" /\ result.status = "ok") =>
        LET old == PrePhones(call.rec)
            at  == FirstAt(old, SelectSeq(call.a, isdigit))
        IN  /\ at # 0
            /\ Without(Phones(call.rec), old, at)
            /\ find_phone(Phones(call.rec), call.a) = 0

\* C8: add_record always succeeds; a new key is appended to the iteration
\* order, an existing key keeps its position and now maps to the given
\* Record, whose phones are its own (nothing of the prior Record is merged).
C8_AddRecordReplaces ==
    (call.op = "add_record") =>
        LET key == pre.records[call.rec].name
            new == [key |-> key, rec |-> call.rec]
        IN  /\ result.status = "ok"
            /\ records = pre.records
            /\ IF HasKey(pre.book, key)
               THEN /\ Len(book) = Len(pre.book)
                    /\ \A i \in 1..Len(book) :
                           book[i] = IF pre.book[i].key = key THEN new
                                     ELSE pre.book[i]
               ELSE book = Append(pre.book, new)

C8_Witness ==
    /\ call.op = "add_record"
    /\ Len(pre.book) = 2
    /\ pre.book[1].key = records[call.rec].name
    /\ pre.book[1].rec # call.rec
    /\ records[pre.book[1].rec].phones # <<>>
    /\ Phones(call.rec) = <<>>
    /\ find(book, records[call.rec].name) = call.rec

\* C9: delete of an existing key removes that entry and nothing else: find
\* on the name then returns None, and the other entries keep their Records
\* and their relative order.
C9_DeleteExactlyOne ==
    (call.op = "delete" /\ HasKey(pre.book, call.a)) =>
        /\ result.status = "ok"
        /\ find(book, call.a) = 0
        /\ ~HasKey(book, call.a)
        /\ records = pre.records
        /\ \E i \in 1..Len(pre.book) :
               pre.book[i].key = call.a /\ Without(book, pre.book, i)

C9_Witness ==
    /\ call.op = "delete"
    /\ result.status = "ok"
    /\ Len(pre.book) = 3
    /\ pre.book[1].key = call.a
    /\ Len(book) = 2

\* C10: every key of the address book is the name value of the Record it
\* maps to, and that value is trimmed and not empty.
C10_KeyIsName ==
    \A i \in 1..Len(book) :
        LET name == records[book[i].rec].name
        IN  /\ book[i].key = name
            /\ name # <<>>
            /\ name[1] \notin Whitespace
            /\ name[Len(name)] \notin Whitespace

C10_Witness ==
    /\ Len(book) = 2
    /\ call.op = "add_phone"
    /\ result.status = "ok"
    /\ HasKey(book, records[call.rec].name)
    /\ find(book, records[call.rec].name) = call.rec
    /\ Phones(call.rec) # <<>>

====
